---- MODULE Spec2Model ----
(***************************************************************************)
(* Presence-sync protocol of Project Flowerbed's multiplayer:              *)
(*   - the relay server       (server/multiplayer/index.js)                *)
(*   - the client transport   (lib/net/TransportWebSocket.js)              *)
(*   - the sync coordinator   (systems/multiplayer/MultiplayerSystem.js)   *)
(* Each part is a state machine over its own group of variables; the       *)
(* specifications at the end of each part pick the actions and the clock   *)
(* granularity under which the properties of that part are checked.        *)
(***************************************************************************)
EXTENDS Integers, Sequences, FiniteSets, TLC

VARIABLES
    \* ---- relay server ----
    now,          \* Date.now() of the relay process, in ms
    nextSweep,    \* due time of the next setInterval heartbeat callback
    readyState,   \* ws.readyState of every server-side connection
    clients,      \* this.clients : connection -> session
    rooms,        \* this.rooms   : roomId -> set of connections
    out,          \* frames written to each connection by the last handler
    op,           \* the event the last relay step handled
    lastBcast,    \* observer: time of the session's last broadcast snapshot
    \* ---- sanitizer (pure functions) ----
    sanIn,        \* argument handed to clampVector3 / clampQuaternion
    sanOut,       \* value returned
    sanPc,        \* "in" before the call, "vec" / "quat" after it
    \* ---- client transport ----
    ws,           \* state of the underlying WebSocket held in this.ws
    isConnecting,
    isConnected,
    reconnectAttempts,
    reconnectTimer,   \* timer handle stored in this.reconnectTimer (0 = null)
    timers,           \* pending setTimeout callbacks: timer id -> delay
    messageQueue,
    sent,             \* number of send() calls so far (message k is the k-th)
    written,          \* messages written to the socket by the last step
    sendResult,       \* return value of the last send() ("none" otherwise)
    top,              \* the transport operation the last step performed
    lastDelay,        \* observer: delay of the last scheduled reconnect
    schedSinceOpen,   \* observer: reconnects scheduled since the last open
    maxReached,       \* observer: maxReconnectAttemptsReached events emitted
    emitted,          \* events emitted to listeners by the last step
    callerCalls,      \* observer: connect()/disconnect() calls made (0, 1, 2 = more)
    disconnected,     \* observer: disconnect() called, connect() not since
    queuedSeq,        \* observer: messages queued since the last flush/clear
    throwsLeft,       \* remaining budget of ws.send() exceptions
    \* ---- sync coordinator ----
    entities,         \* plant entities of the ECS world, in creation order
    added,            \* queries.newlyPlanted.added (reactive list)
    published,        \* observer: event:plant messages sent per entity
    remotePlayers,    \* this.remotePlayers: clientId -> avatar
    mpConnected,      \* this.transport.isConnected
    mpSent,           \* messages handed to transport.send() by the last step
    frameTime,        \* the `time` argument of the last execute()
    lastSnapshotTime, \* this.lastSnapshotTime
    poseReady,        \* local player and both controllers are available
    sop,              \* the coordinator operation the last step performed
    seen,             \* observer: ids with a join or snapshot since their last leave
    \* ---- the wire from the relay to one client ----
    inbox             \* frames written to that client's connection, not yet handled by it

relayVars == <<now, nextSweep, readyState, clients, rooms, out, op, lastBcast>>
sanVars == <<sanIn, sanOut, sanPc>>
transportVars == <<ws, isConnecting, isConnected, reconnectAttempts, reconnectTimer,
                   timers, messageQueue, sent, written, sendResult, top, lastDelay,
                   schedSinceOpen, maxReached, emitted, callerCalls, disconnected,
                   queuedSeq, throwsLeft>>
syncVars == <<entities, added, published, remotePlayers, mpConnected, mpSent, frameTime,
              lastSnapshotTime, poseReady, sop, seen>>
vars == <<relayVars, sanVars, transportVars, syncVars, inbox>>

(***************************************************************************)
(* JavaScript values.  A scalar is a record [k, n]: k is the kind, n the   *)
(* numeric value in units of 0.0001 (only meaningful for k = "num").       *)
(***************************************************************************)
Num(n) == [k |-> "num", n |-> n]
NaN == [k |-> "nan", n |-> 0]
PosInf == [k |-> "inf", n |-> 0]
NegInf == [k |-> "ninf", n |-> 0]
Undefined == [k |-> "undef", n |-> 0]
Null == [k |-> "null", n |-> 0]
Str == [k |-> "str", n |-> 0]        \* a non-numeric string such as "abc"
True == [k |-> "true", n |-> 0]

\* typeof v === 'number'
IsNumberType(v) == v.k \in {"num", "nan", "inf", "ninf"}

\* ToNumber(v), applied by the `*` operator
ToNumber(v) ==
    CASE v.k \in {"num", "nan", "inf", "ninf"} -> v
      [] v.k = "null" -> Num(0)
      [] v.k = "true" -> Num(10000)
      [] OTHER -> NaN                \* undefined, non-numeric string

\* Math.round(v * 1000) / 1000 on IEEE-754 doubles.  A value that is not an
\* exact decimal half of 0.001 goes to the nearest multiple of 0.001.  For
\* a half (|n| = 10m + 5) the result follows the double product v * 1000:
\* the double nearest to |n| / 10000 has 53 significant bits and differs
\* from the decimal by R / 10000 units of its last bit (R the remainder of
\* the binary long division); multiplied by 1000 the error moves the
\* product off m + 0.5 when it exceeds half a unit of the product's last
\* bit, and Math.round (half toward +Infinity) then sees a value on one
\* side of the half.
RoundMilli(v) ==
    LET x == ToNumber(v)
        a == IF x.n < 0 THEN -x.n ELSE x.n
        m == a \div 10
        \* binary exponent e of a / 10000, as the scaled value in [10000, 20000)
        e == CHOOSE k \in -14..17 :
                 IF k <= 0 THEN a < 20000 /\ a * 2^(-k) >= 10000 /\ a * 2^(-k) < 20000
                 ELSE (a \div 2^k) >= 10000 /\ (a \div 2^k) < 20000
        scaled == IF e <= 0 THEN a * 2^(-e) ELSE a \div 2^e
        \* a * 1000 / 10000 is in the binade ten above e (not nine)
        wide == scaled >= 10240
        RECURSIVE Pow2Mod(_)
        Pow2Mod(j) == IF j = 0 THEN 1 ELSE (2 * Pow2Mod(j - 1)) % 10000
        R == ((a % 10000) * Pow2Mod(52 - e)) % 10000
        up == R > 5000
        err == IF up THEN 10000 - R ELSE R
        shift == ~wide /\ err > 2560
    IN  IF x.k # "num" THEN x
        ELSE IF a % 10 # 5 THEN Num(((x.n + 5) \div 10) * 10)
        ELSE IF x.n > 0 THEN Num((IF shift /\ ~up THEN m ELSE m + 1) * 10)
        ELSE Num(-((IF shift /\ up THEN m + 1 ELSE m) * 10))

\* Math.min(hi, v) and Math.max(lo, v); NaN propagates
MathMin(hi, v) ==
    CASE v.k = "nan" -> NaN
      [] v.k = "inf" -> Num(hi)
      [] v.k = "ninf" -> NegInf
      [] OTHER -> IF v.n < hi THEN v ELSE Num(hi)
MathMax(lo, v) ==
    CASE v.k = "nan" -> NaN
      [] v.k = "ninf" -> Num(lo)
      [] v.k = "inf" -> PosInf
      [] OTHER -> IF v.n > lo THEN v ELSE Num(lo)

VecLimit == 10000000     \* 1000 in units of 0.0001
QuatLimit == 10000       \* 1 in units of 0.0001

\* Math.max(-lim, Math.min(lim, Math.round(v * 1000) / 1000))
ClampComponent(lim, v) == MathMax(-lim, MathMin(lim, RoundMilli(v)))

(***************************************************************************)
(* A vector / quaternion argument: k = "obj" for an object with fields     *)
(* x, y, z, w (a missing field is Undefined); any other k is a non-object: *)
(* "undef", "null", "zero" (the number 0), "empty" (the string ""), "num"  *)
(* (a number other than 0, such as 5), "str" (a string such as "abc").     *)
(* The first four are falsy, "num", "str" and every object are truthy.     *)
(***************************************************************************)
Obj(x, y, z, w) == [k |-> "obj", x |-> x, y |-> y, z |-> z, w |-> w]
NonObj(kind) == [k |-> kind, x |-> Undefined, y |-> Undefined, z |-> Undefined, w |-> Undefined]
Vec3(x, y, z) == Obj(x, y, z, Undefined)

\* !vec || typeof vec.x !== 'number'  (a non-object has no numeric .x)
NotNumericShaped(vec) == vec.k # "obj" \/ ~IsNumberType(vec.x)

ZeroVector == Vec3(Num(0), Num(0), Num(0))
IdentityQuaternion == Obj(Num(0), Num(0), Num(0), Num(10000))

clampVector3(vec) ==
    IF NotNumericShaped(vec) THEN ZeroVector
    ELSE Vec3(ClampComponent(VecLimit, vec.x),
              ClampComponent(VecLimit, vec.y),
              ClampComponent(VecLimit, vec.z))

clampQuaternion(quat) ==
    IF NotNumericShaped(quat) THEN IdentityQuaternion
    ELSE Obj(ClampComponent(QuatLimit, quat.x),
             ClampComponent(QuatLimit, quat.y),
             ClampComponent(QuatLimit, quat.z),
             ClampComponent(QuatLimit, quat.w))

\* A pose holder (message.head / lh / rh): k = "obj" with fields p and q,
\* "undef" when the field is missing; a holder that is not an object has no
\* p and no q. !head is true of undefined, null, 0 and "".
Pose(p, q) == [k |-> "obj", p |-> p, q |-> q]
NoPose == [k |-> "undef", p |-> NonObj("undef"), q |-> NonObj("undef")]
Truthy(holder) == holder.k \notin {"undef", "null", "zero", "empty"}

SanitizePose(h) == [p |-> clampVector3(h.p), q |-> clampQuaternion(h.q)]

(***************************************************************************)
(*                              RELAY SERVER                               *)
(***************************************************************************)
Conns == {"c1", "c2", "c3"}
ClientIds == {"a", "b"}
RoomIds == {"default", "r1"}
NoRoom == "<undefined>"       \* hello without a room field
NoConn == "<null>"            \* broadcastToRoom's default `exclude = null`

HEARTBEAT_INTERVAL == 30000
StaleTimeout == 60000
SnapshotWindow == 40

StartTime == 1                \* Date.now() when the server is constructed
MaxSweeps == 3                \* heartbeat callbacks explored
MaxFineTime == 82             \* span explored with millisecond-scale ticks

NoSession == [has |-> FALSE, clientId |-> "", room |-> "", lastPing |-> 0, lastSnapshot |-> 0]

\* An inbound JSON message after JSON.parse: every field the handlers
\* destructure; "" / 0 / NoPose / NonObj("undef") stand for a missing field.
Message(v, type, clientId, room, t, head, lh, rh, plantType, pos, quat) ==
    [v |-> v, type |-> type, clientId |-> clientId, room |-> room, t |-> t,
     head |-> head, lh |-> lh, rh |-> rh, plantType |-> plantType, pos |-> pos, quat |-> quat]
NoVec == NonObj("undef")
NoMsg == Message(0, "", "", NoRoom, 0, NoPose, NoPose, NoPose, "", NoVec, NoVec)

Hello(v, clientId, room) ==
    Message(v, "hello", clientId, room, 0, NoPose, NoPose, NoPose, "", NoVec, NoVec)
Snapshot(clientId, t, head, lh, rh) ==
    Message(1, "snapshot", clientId, NoRoom, t, head, lh, rh, "", NoVec, NoVec)
PlantEvent(clientId, plantType, pos, quat, t) ==
    Message(1, "event:plant", clientId, NoRoom, t, NoPose, NoPose, NoPose, plantType, pos, quat)
Bare(type) == Message(1, type, "", NoRoom, 0, NoPose, NoPose, NoPose, "", NoVec, NoVec)

\* Poses used by the clients of the relay model: in range, out of range,
\* and an object of which only x is a number.
GoodPose == Pose(Vec3(Num(12345), Num(-5), Num(0)), Obj(Num(0), Num(0), Num(0), Num(10000)))
WildPose == Pose(Vec3(PosInf, Num(-20000004), Num(15)), Obj(Num(20000), Num(-10004), Num(5), Num(0)))
PartPose == Pose(Vec3(Num(10000), Undefined, Str), Obj(Num(0), Undefined, Null, True))
EmptyPose == Pose(NonObj("undef"), NonObj("str"))

\* clientIds are caller-supplied and need not be unique: c3 claims the id
\* that c1 uses
HelloIds(c) == IF c = "c2" THEN {"b"} ELSE {"a"}
HelloRooms == {NoRoom, "r1"}

\* what a client may send on connection c
RelayMessages(c) ==
    { Hello(1, id, r) : id \in HelloIds(c), r \in HelloRooms }
    \cup { Hello(1, "", "r1"), Hello(2, "a", "r1") }
    \cup { Snapshot("b", 0, WildPose, EmptyPose, PartPose),
           Snapshot("", 7, NoPose, GoodPose, GoodPose) }
    \cup { PlantEvent("b", "rose", WildPose.p, PartPose.q, 0),
           PlantEvent("", "", GoodPose.p, GoodPose.q, 7),
           PlantEvent("", "rose", NoVec, GoodPose.q, 7),
           PlantEvent("", "rose", NonObj("num"), NonObj("zero"), 7) }
    \cup { Bare("pong"), Bare("chat") }

\* the messages of the rate-limit scenarios
RateMessages(c) ==
    { Hello(1, id, NoRoom) : id \in HelloIds(c) }
    \cup { Snapshot("", 7, GoodPose, GoodPose, GoodPose),
           Snapshot("", 7, NoPose, GoodPose, GoodPose) }
RateConns == {"c1", "c2"}

\* ---- outbound frames ----
ErrorMsg(text, time) == [v |-> 1, type |-> "error", error |-> text, timestamp |-> time]
JoinMsg(id, time) == [v |-> 1, type |-> "join", clientId |-> id, timestamp |-> time]
LeaveMsg(id, time) == [v |-> 1, type |-> "leave", clientId |-> id, timestamp |-> time]
HelloAck(id, room) == [v |-> 1, type |-> "hello_ack", clientId |-> id, room |-> room]
PingFrame == [v |-> 0, type |-> "ping"]

Silent == [c \in Conns |-> <<>>]

\* JSON.stringify(message) as the receiver parses it: a NaN or an Infinity
\* in a pose component is written as null
JSONStringify(message) ==
    LET Scalar(v) == IF v.k \in {"nan", "inf", "ninf"} THEN Null ELSE v
        Vec(vec) == [vec EXCEPT !.x = Scalar(@), !.y = Scalar(@), !.z = Scalar(@),
                                !.w = Scalar(@)]
        Holder(h) == [h EXCEPT !.p = Vec(@), !.q = Vec(@)]
    IN  CASE message.type = "snapshot" ->
               [message EXCEPT !.head = Holder(@), !.lh = Holder(@), !.rh = Holder(@)]
          [] message.type = "event:plant" ->
               [message EXCEPT !.pos = Vec(@), !.quat = Vec(@)]
          [] OTHER -> message

\* send(ws, message): written only when ws.readyState === ws.OPEN
send(rs, o, c, message) ==
    IF rs[c] = "OPEN" THEN [o EXCEPT ![c] = Append(@, JSONStringify(message))] ELSE o

sendErrorDropped(rs, o, c, text, time) == o
sendError(rs, o, c, text, time) == send(rs, o, c, ErrorMsg(text, time))

\* broadcastToRoom: the connections client.send(messageStr) is called on
BroadcastNoExclude(rs, rm, roomId, exclude) ==
    IF roomId \notin DOMAIN rm THEN {}
    ELSE { c \in rm[roomId] : rs[c] = "OPEN" }
BroadcastTargets(rs, rm, roomId, exclude) ==
    IF roomId \notin DOMAIN rm THEN {}
    ELSE { c \in rm[roomId] : c # exclude /\ rs[c] = "OPEN" }

broadcastToRoom(rs, rm, o, roomId, message, exclude) ==
    [c \in Conns |-> IF c \in BroadcastTargets(rs, rm, roomId, exclude)
                     THEN Append(o[c], JSONStringify(message)) ELSE o[c]]

\* cleanupClient(ws): the session table and room registry it leaves
CleanupKeepsMember(cl, rm, c) ==
    IF cl[c].has THEN [clients |-> [cl EXCEPT ![c] = NoSession], rooms |-> rm]
    ELSE [clients |-> cl, rooms |-> rm]
cleanupClient(cl, rm, c) ==
    IF cl[c].has
    THEN [clients |-> [cl EXCEPT ![c] = NoSession],
          rooms |-> IF cl[c].room \in DOMAIN rm
                    THEN [rm EXCEPT ![cl[c].room] = @ \ {c}]
                    ELSE rm]
    ELSE [clients |-> cl, rooms |-> rm]

\* sanitizeSnapshot(message): ok = FALSE stands for the null result
sanitizeSnapshot(message, time) ==
    IF ~Truthy(message.head) \/ ~Truthy(message.lh) \/ ~Truthy(message.rh)
    THEN [ok |-> FALSE, v |-> 1, type |-> "snapshot", t |-> 0,
          head |-> SanitizePose(NoPose), lh |-> SanitizePose(NoPose), rh |-> SanitizePose(NoPose)]
    ELSE [ok |-> TRUE, v |-> 1, type |-> "snapshot",
          t |-> IF message.t # 0 THEN message.t ELSE time,
          head |-> SanitizePose(message.head),
          lh |-> SanitizePose(message.lh),
          rh |-> SanitizePose(message.rh)]

SnapshotMsg(s, id) ==
    [v |-> 1, type |-> "snapshot", t |-> s.t, head |-> s.head, lh |-> s.lh, rh |-> s.rh,
     clientId |-> id]

\* !pos, !quat : undefined, null, 0 and "" are falsy; any object, any other
\* number and any other string is truthy
VecTruthy(vec) == vec.k \notin {"undef", "null", "zero", "empty"}

PlantMsgPayloadId(message, id, time) ==
    [v |-> 1, type |-> "event:plant",
     clientId |-> IF message.clientId # "" THEN message.clientId ELSE id,
     plantType |-> message.plantType,
     pos |-> clampVector3(message.pos), quat |-> clampQuaternion(message.quat),
     t |-> IF message.t # 0 THEN message.t ELSE time]
PlantMsg(message, id, time) ==
    [v |-> 1, type |-> "event:plant", clientId |-> id, plantType |-> message.plantType,
     pos |-> clampVector3(message.pos), quat |-> clampQuaternion(message.quat),
     t |-> IF message.t # 0 THEN message.t ELSE time]


\* Everything outside the relay
NotRelay == <<sanVars, transportVars, syncVars, inbox>>

OpRec(kind, c, m) == [kind |-> kind, ws |-> c, msg |-> m]

RelayInit ==
    /\ now = StartTime
    /\ nextSweep = StartTime + HEARTBEAT_INTERVAL
    /\ readyState = [c \in Conns |-> "CLOSED"]
    /\ clients = [c \in Conns |-> NoSession]
    /\ rooms = [r \in {} |-> {}]
    /\ out = Silent
    /\ op = OpRec("init", NoConn, NoMsg)
    /\ lastBcast = [c \in Conns |-> 0]

\* wss.on('connection'): a new socket; the relay pings it at once
OnConnection(c) ==
    /\ readyState[c] = "CLOSED"
    /\ readyState' = [readyState EXCEPT ![c] = "OPEN"]
    /\ out' = [Silent EXCEPT ![c] = <<PingFrame>>]
    /\ op' = OpRec("connection", c, NoMsg)
    /\ UNCHANGED <<now, nextSweep, clients, rooms, lastBcast>>

\* ws.on('message') with data JSON.parse rejects. The listener stays attached
\* until the socket's 'close' event, so it also runs for data that arrives on
\* a socket that is closing; only the writes test for OPEN (send).
OnInvalidJson(c) ==
    /\ readyState[c] # "CLOSED"
    /\ out' = sendError(readyState, Silent, c, "Invalid message format", now)
    /\ op' = OpRec("badjson", c, NoMsg)
    /\ UNCHANGED <<now, nextSweep, readyState, clients, rooms, lastBcast>>

\* const { clientId, room = 'default' } = message
HelloRoomNoDefault(message) == message.room
HelloRoom(message) == IF message.room = NoRoom THEN "default" ELSE message.room

\* handleHello
handleHello(c, message) ==
    LET clientId == message.clientId
        room == HelloRoom(message)
    IN  IF clientId = ""
        THEN /\ out' = sendError(readyState, Silent, c, "clientId required", now)
             /\ UNCHANGED <<clients, rooms, lastBcast>>
        ELSE LET cleaned == cleanupClient(clients, rooms, c)
                 cl == [cleaned.clients EXCEPT ![c] =
                          [has |-> TRUE, clientId |-> clientId, room |-> room,
                           lastPing |-> now, lastSnapshot |-> 0]]
                 rm == IF room \in DOMAIN cleaned.rooms
                       THEN [cleaned.rooms EXCEPT ![room] = @ \cup {c}]
                       ELSE [r \in DOMAIN cleaned.rooms \cup {room} |->
                               IF r = room THEN {c} ELSE cleaned.rooms[r]]
                 joined == broadcastToRoom(readyState, rm, Silent, room, JoinMsg(clientId, now), c)
             IN  /\ clients' = cl
                 /\ rooms' = rm
                 /\ out' = send(readyState, joined, c, HelloAck(clientId, room))
                 /\ lastBcast' = [lastBcast EXCEPT ![c] = 0]

\* the rate-limit test of handleSnapshot: TRUE when the message is dropped
RateLimitedInclusive(last, time) == last # 0 /\ time - last <= SnapshotWindow
RateLimited(last, time) == last # 0 /\ time - last < SnapshotWindow

\* handleSnapshot
handleSnapshot(c, message) ==
    LET client == clients[c]
        sanitized == sanitizeSnapshot(message, now)
    IN  IF ~client.has
        THEN /\ out' = sendError(readyState, Silent, c, "Not authenticated", now)
             /\ UNCHANGED <<clients, rooms, lastBcast>>
        ELSE IF RateLimited(client.lastSnapshot, now)
        THEN /\ out' = Silent
             /\ UNCHANGED <<clients, rooms, lastBcast>>
        ELSE /\ clients' = [clients EXCEPT ![c].lastSnapshot = now]
             /\ rooms' = rooms
             /\ IF ~sanitized.ok
                THEN /\ out' = Silent
                     /\ lastBcast' = lastBcast
                ELSE /\ out' = broadcastToRoom(readyState, rooms, Silent, client.room,
                                               SnapshotMsg(sanitized, client.clientId), c)
                     /\ lastBcast' = [lastBcast EXCEPT ![c] = now]

\* handlePlantEvent
handlePlantEvent(c, message) ==
    LET client == clients[c]
    IN  IF ~client.has
        THEN /\ out' = sendError(readyState, Silent, c, "Not authenticated", now)
             /\ UNCHANGED <<clients, rooms, lastBcast>>
        ELSE IF message.plantType = "" \/ ~VecTruthy(message.pos) \/ ~VecTruthy(message.quat)
        THEN /\ out' = sendError(readyState, Silent, c, "Invalid plant event data", now)
             /\ UNCHANGED <<clients, rooms, lastBcast>>
        ELSE /\ out' = broadcastToRoom(readyState, rooms, Silent, client.room,
                                       PlantMsg(message, client.clientId, now), c)
             /\ UNCHANGED <<clients, rooms, lastBcast>>

\* handlePong
handlePong(c) ==
    /\ clients' = IF clients[c].has THEN [clients EXCEPT ![c].lastPing = now] ELSE clients
    /\ out' = Silent
    /\ UNCHANGED <<rooms, lastBcast>>

\* ws.on('message') with well-formed JSON: handleMessage, on a socket that is
\* open or closing (no readyState test before the handlers run)
OnMessage(c, message) ==
    /\ readyState[c] # "CLOSED"
    /\ op' = OpRec("message", c, message)
    /\ UNCHANGED <<now, nextSweep, readyState>>
    /\ IF message.v # 1
       THEN /\ out' = sendError(readyState, Silent, c, "Unsupported message version", now)
            /\ UNCHANGED <<clients, rooms, lastBcast>>
       ELSE CASE message.type = "hello" -> handleHello(c, message)
              [] message.type = "snapshot" -> handleSnapshot(c, message)
              [] message.type = "event:plant" -> handlePlantEvent(c, message)
              [] message.type = "pong" -> handlePong(c)
              [] OTHER -> /\ out' = Silent
                          /\ UNCHANGED <<clients, rooms, lastBcast>>

\* The peer closes or drops the socket: readyState leaves OPEN, the 'close'
\* event has not been dispatched yet.
PeerClose(c) ==
    /\ readyState[c] = "OPEN"
    /\ readyState' = [readyState EXCEPT ![c] = "CLOSING"]
    /\ out' = Silent
    /\ op' = OpRec("closing", c, NoMsg)
    /\ UNCHANGED <<now, nextSweep, clients, rooms, lastBcast>>

\* handleDisconnect: session table, room registry and frames it leaves
handleDisconnectNoLeave(rs, cl, rm, c, time) ==
    IF ~cl[c].has THEN [clients |-> cl, rooms |-> rm, out |-> Silent]
    ELSE [clients |-> [cl EXCEPT ![c] = NoSession],
          rooms |-> IF cl[c].room \in DOMAIN rm
                    THEN [rm EXCEPT ![cl[c].room] = @ \ {c}] ELSE rm,
          out |-> Silent]
handleDisconnect(rs, cl, rm, c, time) ==
    IF ~cl[c].has THEN [clients |-> cl, rooms |-> rm, out |-> Silent]
    ELSE LET clientId == cl[c].clientId
             room == cl[c].room
             left == IF room \in DOMAIN rm THEN rm[room] \ {c} ELSE {}
             rm2 == IF room \notin DOMAIN rm THEN rm
                    ELSE IF left = {} THEN [r \in DOMAIN rm \ {room} |-> rm[r]]
                    ELSE [rm EXCEPT ![room] = left]
         IN  [clients |-> [cl EXCEPT ![c] = NoSession],
              rooms |-> rm2,
              out |-> IF room \in DOMAIN rm /\ left # {}
                      THEN broadcastToRoom(rs, rm2, Silent, room, LeaveMsg(clientId, time), NoConn)
                      ELSE Silent]

\* ws.on('close')
OnWsClose(c) ==
    /\ readyState[c] = "CLOSING"
    /\ LET rs == [readyState EXCEPT ![c] = "CLOSED"]
           r == handleDisconnect(rs, clients, rooms, c, now)
       IN  /\ readyState' = rs
           /\ clients' = r.clients
           /\ rooms' = r.rooms
           /\ out' = r.out
    /\ lastBcast' = [lastBcast EXCEPT ![c] = 0]
    /\ op' = OpRec("close", c, NoMsg)
    /\ UNCHANGED <<now, nextSweep>>

\* the staleness test of the heartbeat sweep
StaleWrongUnit(client, time) == time - client.lastPing > StaleTimeout * 1000
StaleInclusive(client, time) == time - client.lastPing >= StaleTimeout
Stale(client, time) == time - client.lastPing > StaleTimeout

\* startHeartbeat: the setInterval callback fires when it is due.
\* wss.clients holds every socket whose 'close' has not been dispatched.
Heartbeat ==
    /\ nextSweep <= StartTime + MaxSweeps * HEARTBEAT_INTERVAL
    /\ now' = nextSweep
    /\ nextSweep' = nextSweep + HEARTBEAT_INTERVAL
    /\ LET swept == { c \in Conns : readyState[c] # "CLOSED" /\ clients[c].has }
           stale == { c \in swept : Stale(clients[c], nextSweep) }
       IN  /\ readyState' = [c \in Conns |-> IF c \in stale THEN "CLOSING" ELSE readyState[c]]
           /\ out' = [c \in Conns |-> IF c \in swept \ stale /\ readyState[c] = "OPEN"
                                      THEN <<PingFrame>> ELSE <<>>]
    /\ op' = OpRec("heartbeat", NoConn, NoMsg)
    /\ UNCHANGED <<clients, rooms, lastBcast>>

\* the clock advances by d ms with no event handled
Tick(d) ==
    /\ now + d <= StartTime + MaxFineTime
    /\ now' = now + d
    /\ out' = Silent
    /\ op' = OpRec("tick", NoConn, NoMsg)
    /\ UNCHANGED <<nextSweep, readyState, clients, rooms, lastBcast>>

\* the clock advances by half a heartbeat interval between two sweeps
HalfInterval == HEARTBEAT_INTERVAL \div 2
Elapse ==
    /\ now + HalfInterval < nextSweep
    /\ now' = now + HalfInterval
    /\ out' = Silent
    /\ op' = OpRec("elapse", NoConn, NoMsg)
    /\ UNCHANGED <<nextSweep, readyState, clients, rooms, lastBcast>>

\* the messages of the heartbeat scenarios
HeartbeatMessages(c) ==
    { Hello(1, id, r) : id \in HelloIds(c),
                        r \in IF c = "c3" THEN HelloRooms ELSE {NoRoom} }
    \cup { Bare("pong") }

\* A client that vanishes: after its hello it sends nothing and never closes.
\* Its hello comes early enough for a sweep more than StaleTimeout later to
\* lie within the sweeps explored.
Vanishing == "c1"
Watchers == Conns \ {"c3"}
\* What the sweep's terminate() leaves to be delivered on its socket (data
\* received before, handled until the 'close' event) is not restricted.
VanishMessages(c) ==
    IF c = Vanishing /\ readyState[c] = "OPEN"
    THEN { Hello(1, id, NoRoom) : id \in HelloIds(c) }
    ELSE { Hello(1, id, NoRoom) : id \in HelloIds(c) } \cup { Bare("pong") }
HelloInTime(c) ==
    (c = Vanishing /\ readyState[c] = "OPEN")
        => now + StaleTimeout < StartTime + MaxSweeps * HEARTBEAT_INTERVAL

TickSteps == {39, 40, 41}

RelayEvents(conns) ==
    \/ \E c \in conns : OnConnection(c)
    \/ \E c \in conns : OnInvalidJson(c)
    \/ \E c \in conns : PeerClose(c)
    \/ \E c \in conns : OnWsClose(c)

(***************************************************************************)
(*                            CLIENT TRANSPORT                             *)
(***************************************************************************)
maxReconnectAttempts == 10
reconnectDelay == 1000
maxReconnectDelay == 30000
maxQueueSize == 100

MaxTimers == 2       \* setTimeout callbacks that may be pending at once
MaxThrows == 1       \* ws.send() exceptions explored
FewSends == 2        \* send() calls explored together with reconnection
MaxSends == 102      \* send() calls explored for the outbound queue

NotTransport == <<relayVars, sanVars, syncVars, inbox>>

TransportInit ==
    /\ ws = "null"
    /\ isConnecting = FALSE
    /\ isConnected = FALSE
    /\ reconnectAttempts = 0
    /\ reconnectTimer = 0
    /\ timers = {}
    /\ messageQueue = <<>>
    /\ sent = 0
    /\ written = <<>>
    /\ sendResult = "none"
    /\ top = "init"
    /\ lastDelay = 0
    /\ schedSinceOpen = 0
    /\ maxReached = 0
    /\ emitted = <<>>
    /\ callerCalls = 0
    /\ disconnected = FALSE
    /\ queuedSeq = <<>>
    /\ throwsLeft = MaxThrows

Min(a, b) == IF a < b THEN a ELSE b
LastN(seq, n) == IF Len(seq) <= n THEN seq ELSE SubSeq(seq, Len(seq) - n + 1, Len(seq))
FreeTimer(pending) == CHOOSE i \in 1..MaxTimers : i \notin pending /\ \A j \in 1..(i - 1) : j \in pending
HasFreeTimer(pending) == \E i \in 1..MaxTimers : i \notin pending

\* the delay scheduleReconnect computes
ReconnectDelayFor(attempts) == Min(reconnectDelay * 2 ^ attempts, maxReconnectDelay)

\* the exhaustion test of scheduleReconnect
ExhaustedLate(attempts) == attempts > maxReconnectAttempts
Exhausted(attempts) == attempts >= maxReconnectAttempts

\* scheduleReconnect(), called with this.reconnectAttempts = attempts, the
\* pending timers `pending`, this.reconnectTimer = handle and the events `ev`
\* emitted so far in this step
scheduleReconnect(attempts, pending, handle, ev) ==
    IF Exhausted(attempts)
    THEN /\ emitted' = Append(ev, "maxReconnectAttemptsReached")
         /\ maxReached' = Min(maxReached + 1, 2)
         /\ timers' = pending
         /\ reconnectTimer' = handle
         /\ UNCHANGED <<lastDelay, schedSinceOpen>>
    ELSE /\ emitted' = ev
         /\ timers' = pending \cup {FreeTimer(pending)}
         /\ reconnectTimer' = FreeTimer(pending)
         /\ lastDelay' = ReconnectDelayFor(attempts)
         /\ schedSinceOpen' = Min(schedSinceOpen + 1, maxReconnectAttempts + 1)
         /\ maxReached' = maxReached

\* scheduleReconnect() can allocate its timer within the explored bound
CanSchedule(attempts, pending) == Exhausted(attempts) \/ HasFreeTimer(pending)

\* connect(); `throws` tells whether `new WebSocket(url)` raises
connect(attempts, pending, handle, throws) ==
    IF isConnecting \/ isConnected
    THEN /\ timers' = pending
         /\ reconnectTimer' = handle
         /\ emitted' = <<>>
         /\ UNCHANGED <<ws, isConnecting, lastDelay, schedSinceOpen, maxReached>>
    ELSE /\ isConnecting' = TRUE
         /\ IF throws
            THEN /\ ws' = ws
                 /\ scheduleReconnect(attempts, pending, handle, <<>>)
            ELSE /\ ws' = "CONNECTING"
                 /\ timers' = pending
                 /\ reconnectTimer' = handle
                 /\ emitted' = <<>>
                 /\ UNCHANGED <<lastDelay, schedSinceOpen, maxReached>>

\* the caller calls connect()
Connect(throws) ==
    /\ throws => (~isConnecting /\ ~isConnected /\ CanSchedule(reconnectAttempts, timers))
    /\ connect(reconnectAttempts, timers, reconnectTimer, throws)
    /\ top' = "connect"
    /\ callerCalls' = Min(callerCalls + 1, 2)
    /\ disconnected' = FALSE
    /\ written' = <<>>
    /\ sendResult' = "none"
    /\ UNCHANGED <<isConnected, reconnectAttempts, messageQueue, sent, queuedSeq, throwsLeft>>
    /\ UNCHANGED NotTransport

\* the setTimeout callback of scheduleReconnect fires
TimerFire(id, throws) ==
    /\ id \in timers
    /\ throws => (~isConnecting /\ ~isConnected
                    /\ CanSchedule(reconnectAttempts + 1, timers \ {id}))
    /\ reconnectAttempts' = reconnectAttempts + 1
    /\ connect(reconnectAttempts + 1, timers \ {id}, 0, throws)
    /\ top' = "timer"
    /\ written' = <<>>
    /\ sendResult' = "none"
    /\ UNCHANGED <<isConnected, messageQueue, sent, queuedSeq, throwsLeft, callerCalls,
                   disconnected>>
    /\ UNCHANGED NotTransport

\* disconnect()
disconnect ==
    /\ timers' = timers \ {reconnectTimer}
    /\ reconnectTimer' = 0
    /\ ws' = "null"
    /\ isConnecting' = FALSE
    /\ isConnected' = FALSE
    /\ messageQueue' = <<>>
    /\ queuedSeq' = <<>>
    /\ top' = "disconnect"
    /\ callerCalls' = Min(callerCalls + 1, 2)
    /\ disconnected' = TRUE
    /\ emitted' = <<>>
    /\ written' = <<>>
    /\ sendResult' = "none"
    /\ UNCHANGED <<reconnectAttempts, sent, lastDelay, schedSinceOpen, maxReached, throwsLeft>>
    /\ UNCHANGED NotTransport

\* queueMessage(messageStr)
QueueDropNewest(queue, m) ==
    IF Len(queue) >= maxQueueSize THEN queue ELSE Append(queue, m)
queueMessage(queue, m) ==
    IF Len(queue) >= maxQueueSize THEN Append(Tail(queue), m) ELSE Append(queue, m)

\* send(message): the send() call number sent + 1; `throws` tells whether
\* ws.send raises
Send(limit, throws) ==
    /\ sent < limit
    /\ throws => (throwsLeft > 0 /\ isConnected /\ ws = "OPEN")
    /\ sent' = sent + 1
    /\ IF isConnected /\ ws = "OPEN" /\ ~throws
       THEN /\ written' = <<sent + 1>>
            /\ sendResult' = "true"
            /\ UNCHANGED <<messageQueue, queuedSeq>>
       ELSE /\ written' = <<>>
            /\ sendResult' = "false"
            /\ messageQueue' = queueMessage(messageQueue, sent + 1)
            /\ queuedSeq' = Append(queuedSeq, sent + 1)
    /\ throwsLeft' = IF throws THEN throwsLeft - 1 ELSE throwsLeft
    /\ top' = "send"
    /\ emitted' = <<>>
    /\ UNCHANGED <<ws, isConnecting, isConnected, reconnectAttempts, reconnectTimer, timers,
                   lastDelay, schedSinceOpen, maxReached, callerCalls, disconnected>>
    /\ UNCHANGED NotTransport

\* flushQueue() with the failAt-th ws.send raising (0: none raises):
\* what is written and what stays queued
flushQueue(queue, failAt) ==
    IF failAt = 0 THEN [written |-> queue, queue |-> <<>>]
    ELSE [written |-> SubSeq(queue, 1, failAt - 1),
          queue |-> SubSeq(queue, failAt, Len(queue))]

\* the socket's 'open' event: onOpen
onOpen(failAt) ==
    /\ ws = "CONNECTING"
    /\ failAt <= Len(messageQueue)
    /\ failAt # 0 => throwsLeft > 0
    /\ ws' = "OPEN"
    /\ isConnecting' = FALSE
    /\ isConnected' = TRUE
    /\ reconnectAttempts' = 0
    /\ LET f == flushQueue(messageQueue, failAt)
       IN  /\ written' = f.written
           /\ messageQueue' = f.queue
           /\ queuedSeq' = f.queue
    /\ throwsLeft' = IF failAt # 0 THEN throwsLeft - 1 ELSE throwsLeft
    /\ schedSinceOpen' = 0
    /\ maxReached' = 0
    /\ emitted' = <<"open">>
    /\ top' = "open"
    /\ sendResult' = "none"
    /\ UNCHANGED <<reconnectTimer, timers, sent, lastDelay, callerCalls, disconnected>>
    /\ UNCHANGED NotTransport

\* the open socket starts closing (peer close frame, network loss); the
\* 'close' event has not been dispatched yet
SocketClosing ==
    /\ ws = "OPEN"
    /\ ws' = "CLOSING"
    /\ top' = "closing"
    /\ emitted' = <<>>
    /\ written' = <<>>
    /\ sendResult' = "none"
    /\ UNCHANGED <<isConnecting, isConnected, reconnectAttempts, reconnectTimer, timers,
                   messageQueue, sent, lastDelay, schedSinceOpen, maxReached, callerCalls,
                   disconnected, queuedSeq, throwsLeft>>
    /\ UNCHANGED NotTransport

CleanClose == 1000
CloseCodes == {CleanClose, 1006}

\* the socket's 'close' event: onClose(event)
onClose(code) ==
    /\ ws \in {"CONNECTING", "OPEN", "CLOSING"}
    /\ code = CleanClose => ws # "CONNECTING"     \* a failed handshake is never clean
    /\ code # CleanClose => CanSchedule(reconnectAttempts, timers)
    /\ ws' = "CLOSED"
    /\ isConnecting' = FALSE
    /\ isConnected' = FALSE
    /\ IF code # CleanClose
       THEN scheduleReconnect(reconnectAttempts, timers, reconnectTimer, <<"close">>)
       ELSE /\ emitted' = <<"close">>
            /\ UNCHANGED <<timers, reconnectTimer, lastDelay, schedSinceOpen, maxReached>>
    /\ top' = IF code = CleanClose THEN "close" ELSE "abnormalclose"
    /\ written' = <<>>
    /\ sendResult' = "none"
    /\ UNCHANGED <<reconnectAttempts, messageQueue, sent, callerCalls, disconnected,
                   queuedSeq, throwsLeft>>
    /\ UNCHANGED NotTransport

\* the socket's 'error' event: onError
onError ==
    /\ ws \in {"CONNECTING", "OPEN", "CLOSING"}
    /\ emitted' = <<"error">>
    /\ top' = "error"
    /\ written' = <<>>
    /\ sendResult' = "none"
    /\ UNCHANGED <<ws, isConnecting, isConnected, reconnectAttempts, reconnectTimer, timers,
                   messageQueue, sent, lastDelay, schedSinceOpen, maxReached, callerCalls,
                   disconnected, queuedSeq, throwsLeft>>
    /\ UNCHANGED NotTransport

\* the socket's 'message' event: onMessage; `valid` tells whether
\* JSON.parse accepts event.data
onMessage(valid) ==
    /\ ws = "OPEN"
    /\ emitted' = IF valid THEN <<"message">> ELSE <<>>
    /\ top' = "message"
    /\ written' = <<>>
    /\ sendResult' = "none"
    /\ UNCHANGED <<ws, isConnecting, isConnected, reconnectAttempts, reconnectTimer, timers,
                   messageQueue, sent, lastDelay, schedSinceOpen, maxReached, callerCalls,
                   disconnected, queuedSeq, throwsLeft>>
    /\ UNCHANGED NotTransport

(***************************************************************************)
(*                            SYNC COORDINATOR                             *)
(* The coordinator is an ECSY (0.4) system.  A query with `listen: {added}`*)
(* keeps a list `added`: an entity is pushed on it when a component change *)
(* makes it match the query, is not taken off it when it stops matching,   *)
(* and the list is emptied after every execute() of the system.            *)
(***************************************************************************)
SelfId == "me"
RemoteIds == {"a", "b"}
PlantTypes == {"rose"}
snapshotInterval == 50

MaxEntities == 2        \* plant entities created
MaxFrameTime == 100     \* frame clock explored
FrameDeltas == {25, 50} \* the delta argument of execute(), in units of 0.001
FrameSteps == {25, 50}  \* advance of the time argument from one execute() to the next

\* A pose coordinate: the exact fraction num / den in lowest terms (den > 0).
\* The doubles of the code hold these values exactly for the interpolation
\* factors explored (10 * delta = 0.25 and 0.5).
Coord(n) == [num |-> n, den |-> 1]

NotSync == <<relayVars, sanVars, transportVars, inbox>>

SyncInit ==
    /\ entities = <<>>
    /\ added = <<>>
    /\ published = <<>>
    /\ remotePlayers = [id \in {} |-> 0]
    /\ mpConnected = FALSE
    /\ mpSent = <<>>
    /\ frameTime = 0
    /\ lastSnapshotTime = 0
    /\ poseReady = FALSE
    /\ sop = "init"
    /\ seen = {}

\* queries.newlyPlanted: [PlantGrowingComponent, Object3DComponent, Not(Networked)]
NewlyPlantedMatch(comps) ==
    /\ "PlantGrowingComponent" \in comps
    /\ "Object3DComponent" \in comps
    /\ "Networked" \notin comps

InSeq(seq, x) == \E i \in 1..Len(seq) : seq[i] = x

\* entity.addComponent(comp) on an entity with components `comps`, id e:
\* the components and the reactive list it leaves
AddComponent(st, e, comp) ==
    LET comps == st.comps \cup {comp}
        entered == NewlyPlantedMatch(comps) /\ ~NewlyPlantedMatch(st.comps)
    IN  [comps |-> comps,
         added |-> IF entered /\ ~InSeq(st.added, e) THEN Append(st.added, e) ELSE st.added]

\* the addComponent calls of handleRemotePlantEvent, in order
RemotePlantOrder == <<"Object3DComponent", "PlantGrowingComponent", "Networked">>

RECURSIVE AddAll(_, _, _)
AddAll(st, e, order) ==
    IF order = <<>> THEN st ELSE AddAll(AddComponent(st, e, Head(order)), e, Tail(order))

HelloOut == [v |-> 1, type |-> "hello", clientId |-> SelfId, room |-> "default"]
PlantOut(ent) == [v |-> 1, type |-> "event:plant", plantType |-> ent.plantType]
SnapshotOut(time) == [v |-> 1, type |-> "snapshot", t |-> time]

\* transport 'open' listener of setupTransportListeners
TransportOpen ==
    /\ ~mpConnected
    /\ mpConnected' = TRUE
    /\ mpSent' = <<HelloOut>>
    /\ sop' = "open"
    /\ seen' = seen
    /\ UNCHANGED <<entities, added, published, remotePlayers, frameTime, lastSnapshotTime,
                   poseReady>>
    /\ UNCHANGED NotSync

\* the transport loses its connection (transport.isConnected becomes false)
TransportDown ==
    /\ mpConnected
    /\ mpConnected' = FALSE
    /\ mpSent' = <<>>
    /\ sop' = "down"
    /\ seen' = seen
    /\ UNCHANGED <<entities, added, published, remotePlayers, frameTime, lastSnapshotTime,
                   poseReady>>
    /\ UNCHANGED NotSync

\* the local player entity and both controller models become available,
\* or a controller model goes away
PosesChange ==
    /\ poseReady' = ~poseReady
    /\ mpSent' = <<>>
    /\ sop' = "poses"
    /\ seen' = seen
    /\ UNCHANGED <<entities, added, published, remotePlayers, mpConnected, frameTime,
                   lastSnapshotTime>>
    /\ UNCHANGED NotSync

\* the planting system creates a plant entity locally
LocalPlant(plantType) ==
    /\ Len(entities) < MaxEntities
    /\ LET e == Len(entities) + 1
           st == AddAll([comps |-> {}, added |-> added], e,
                        <<"Object3DComponent", "PlantGrowingComponent">>)
       IN  /\ entities' = Append(entities, [origin |-> "local", plantType |-> plantType,
                                            comps |-> st.comps])
           /\ added' = st.added
    /\ published' = Append(published, 0)
    /\ mpSent' = <<>>
    /\ sop' = "localplant"
    /\ seen' = seen
    /\ UNCHANGED <<remotePlayers, mpConnected, frameTime, lastSnapshotTime, poseReady>>
    /\ UNCHANGED NotSync

\* handleRemotePlantEvent
handleRemotePlantEvent(clientId, plantType) ==
    IF clientId = SelfId
    THEN UNCHANGED <<entities, added, published>>
    ELSE LET e == Len(entities) + 1
             st == AddAll([comps |-> {}, added |-> added], e, RemotePlantOrder)
         IN  /\ entities' = Append(entities, [origin |-> "remote", plantType |-> plantType,
                                              comps |-> st.comps])
             /\ added' = st.added
             /\ published' = Append(published, 0)

\* createRemotePlayer / avatar record: target, rendered pose and timestamp
NewAvatar == [target |-> Coord(0), rendered |-> Coord(0), lastSnapshotTime |-> 0]

WithAvatar(players, id) ==
    IF id \in DOMAIN players THEN players
    ELSE [k \in DOMAIN players \cup {id} |-> IF k = id THEN NewAvatar ELSE players[k]]

\* handlePlayerJoin
handlePlayerJoinNoSelfCheck(clientId) ==
    remotePlayers' = WithAvatar(remotePlayers, clientId)
handlePlayerJoin(clientId) ==
    remotePlayers' = IF clientId = SelfId THEN remotePlayers
                     ELSE WithAvatar(remotePlayers, clientId)

\* handlePlayerLeave / removeRemotePlayer
handlePlayerLeave(clientId) ==
    remotePlayers' = IF clientId = SelfId \/ clientId \notin DOMAIN remotePlayers
                     THEN remotePlayers
                     ELSE [k \in DOMAIN remotePlayers \ {clientId} |-> remotePlayers[k]]

\* handleSnapshot / updateRemotePlayerTransform: t || Date.now()
handleSnapshotMsg(clientId, target, t, dateNow) ==
    remotePlayers' = IF clientId = SelfId THEN remotePlayers
                     ELSE [WithAvatar(remotePlayers, clientId) EXCEPT
                             ![clientId].target = target,
                             ![clientId].lastSnapshotTime = IF t # 0 THEN t ELSE dateNow]

\* transport 'message' listener: handleMessage
SyncMessages ==
    { [type |-> ty, clientId |-> id, plantType |-> "rose", target |-> Coord(0), t |-> 0] :
        ty \in {"hello_ack", "join", "leave", "event:plant", "error"},
        id \in RemoteIds \cup {SelfId} }
    \cup { [type |-> "snapshot", clientId |-> id, plantType |-> "", target |-> tg, t |-> 7] :
        id \in RemoteIds \cup {SelfId}, tg \in {Coord(100)} }

\* dateNow is Date.now() of the browser when the message is handled
HandleMessage(m, dateNow) ==
    /\ mpConnected
    /\ m.type = "event:plant" /\ m.clientId # SelfId => Len(entities) < MaxEntities
    /\ CASE m.type = "join" ->
              handlePlayerJoin(m.clientId) /\ UNCHANGED <<entities, added, published>>
         [] m.type = "leave" ->
              handlePlayerLeave(m.clientId) /\ UNCHANGED <<entities, added, published>>
         [] m.type = "snapshot" ->
              handleSnapshotMsg(m.clientId, m.target, m.t, dateNow)
                /\ UNCHANGED <<entities, added, published>>
         [] m.type = "event:plant" ->
              handleRemotePlantEvent(m.clientId, m.plantType) /\ UNCHANGED remotePlayers
         [] OTHER -> UNCHANGED <<entities, added, published, remotePlayers>>
    /\ mpSent' = <<>>
    /\ sop' = "message"
    /\ seen' = IF m.type \in {"join", "snapshot"} THEN seen \cup {m.clientId}
               ELSE IF m.type = "leave" THEN seen \ {m.clientId}
               ELSE seen
    /\ UNCHANGED <<mpConnected, frameTime, lastSnapshotTime, poseReady>>
    /\ UNCHANGED NotSync

\* publishSnapshot(time): TRUE when a snapshot is sent
PublishesInclusive(time) == ~(time - lastSnapshotTime <= snapshotInterval) /\ poseReady
Publishes(time) == ~(time - lastSnapshotTime < snapshotInterval) /\ poseReady

\* position.lerp(target, 10 * delta): this += (target - this) * alpha, with
\* alpha = 10 * delta, i.e. delta / 100 for delta in units of 0.001; the
\* fraction of the result is kept
Lerp(rendered, target, delta) ==
    LET n == rendered.num * target.den * (100 - delta) + target.num * rendered.den * delta
        d == rendered.den * target.den * 100
        RECURSIVE GCD(_, _)
        GCD(x, y) == IF y = 0 THEN x ELSE GCD(y, x % y)
        g == GCD(IF n < 0 THEN -n ELSE n, d)
    IN  [num |-> n \div g, den |-> d \div g]

\* the messages the newlyPlanted.added loop of execute() sends
PlantsToSend(list) == [i \in 1..Len(list) |-> PlantOut(entities[list[i]])]

\* execute(delta, time), followed by the clearEvents() ECSY runs after it
Execute(delta, step) ==
    /\ frameTime + step <= MaxFrameTime
    /\ frameTime' = frameTime + step
    /\ IF ~mpConnected
       THEN /\ mpSent' = <<>>
            /\ UNCHANGED <<published, remotePlayers, lastSnapshotTime>>
       ELSE /\ mpSent' = (IF Publishes(frameTime + step)
                          THEN <<SnapshotOut(frameTime + step)>> ELSE <<>>)
                         \o PlantsToSend(added)
            /\ lastSnapshotTime' = IF Publishes(frameTime + step)
                                   THEN frameTime + step ELSE lastSnapshotTime
            /\ remotePlayers' = [id \in DOMAIN remotePlayers |->
                                   [remotePlayers[id] EXCEPT !.rendered =
                                      Lerp(@, remotePlayers[id].target, delta)]]
            /\ published' = [e \in 1..Len(published) |->
                               IF InSeq(added, e) THEN published[e] + 1 ELSE published[e]]
    /\ added' = <<>>
    /\ sop' = "execute"
    /\ seen' = seen
    /\ UNCHANGED <<entities, mpConnected, poseReady>>
    /\ UNCHANGED NotSync

\* onStop(): transport.disconnect(), then every remote player is removed
OnStop ==
    /\ mpConnected' = FALSE
    /\ remotePlayers' = [id \in {} |-> 0]
    /\ mpSent' = <<>>
    /\ sop' = "stop"
    /\ seen' = seen
    /\ UNCHANGED <<entities, added, published, frameTime, lastSnapshotTime, poseReady>>
    /\ UNCHANGED NotSync

SyncNext ==
    \/ TransportOpen
    \/ TransportDown
    \/ PosesChange
    \/ \E pt \in PlantTypes : LocalPlant(pt)
    \/ \E m \in SyncMessages : \E dateNow \in {503000} : HandleMessage(m, dateNow)
    \/ \E d \in FrameDeltas : \E step \in FrameSteps : Execute(d, step)
    \/ OnStop

(***************************************************************************)
(*                               SANITIZER                                 *)
(* clampVector3 / clampQuaternion applied to one argument drawn from the   *)
(* inputs below.                                                           *)
(***************************************************************************)
Scalars == { Num(0), Num(-5), Num(12345), Num(10000005), Num(-10000005), Num(10004),
             NaN, PosInf, NegInf, Undefined, Null, Str, True }
QuatScalars == { Num(0), Num(-5), Num(5005), Num(9995), Num(-10015), Num(10004), PosInf,
                 Undefined, Str }

SanInputs ==
    { NonObj(kind) : kind \in {"undef", "null", "zero", "empty", "num", "str"} }
    \cup { Vec3(x, y, z) : x \in Scalars, y \in Scalars, z \in Scalars }
    \cup { Obj(x, y, z, w) : x \in QuatScalars, y \in QuatScalars, z \in QuatScalars,
                             w \in QuatScalars }

NotSan == <<relayVars, transportVars, syncVars, inbox>>

SanIdle ==
    /\ sanIn = NonObj("undef")
    /\ sanOut = NonObj("undef")
    /\ sanPc = "idle"

SanInit ==
    /\ sanIn \in SanInputs
    /\ sanOut = NonObj("undef")
    /\ sanPc = "in"

ApplyVector3 ==
    /\ sanPc = "in"
    /\ sanOut' = clampVector3(sanIn)
    /\ sanPc' = "vec"
    /\ UNCHANGED <<sanIn, NotSan>>

ApplyQuaternion ==
    /\ sanPc = "in"
    /\ sanOut' = clampQuaternion(sanIn)
    /\ sanPc' = "quat"
    /\ UNCHANGED <<sanIn, NotSan>>

(***************************************************************************)
(*                             SPECIFICATIONS                              *)
(***************************************************************************)
Init == RelayInit /\ SanIdle /\ TransportInit /\ SyncInit /\ inbox = <<>>

\* the relay: membership and fan-out at one instant of its clock
Next ==
    \/ RelayEvents(Conns) /\ UNCHANGED NotRelay
    \/ (\E c \in Conns : \E m \in RelayMessages(c) : OnMessage(c, m)) /\ UNCHANGED NotRelay
Spec == Init /\ [][Next]_vars

\* the relay on the millisecond scale of the snapshot rate limit
NextRate ==
    \/ RelayEvents(RateConns) /\ UNCHANGED NotRelay
    \/ (\E c \in RateConns : \E m \in RateMessages(c) : OnMessage(c, m)) /\ UNCHANGED NotRelay
    \/ (\E d \in TickSteps : Tick(d)) /\ UNCHANGED NotRelay
SpecRate == Init /\ [][NextRate]_vars

\* the sanitizer functions on every input
InitSanitizer == RelayInit /\ SanInit /\ TransportInit /\ SyncInit /\ inbox = <<>>
NextSanitizer == ApplyVector3 \/ ApplyQuaternion
SpecSanitizer == InitSanitizer /\ [][NextSanitizer]_vars

\* the transport with its reconnection timers
NextTransport ==
    \/ \E th \in BOOLEAN : Connect(th)
    \/ disconnect
    \/ \E th \in BOOLEAN : Send(FewSends, th)
    \/ \E k \in 0..FewSends : onOpen(k)
    \/ SocketClosing
    \/ \E code \in CloseCodes : onClose(code)
    \/ onError
    \/ \E valid \in BOOLEAN : onMessage(valid)
    \/ \E id \in 1..MaxTimers, th \in BOOLEAN : TimerFire(id, th)
SpecTransport == Init /\ [][NextTransport]_vars

\* the transport's outbound queue up to its capacity, with sockets that are
\* created without error and closed cleanly
\* ws.send raises only during the first EarlySends send() calls
EarlySends == 3
NextQueue ==
    \/ Connect(FALSE)
    \/ disconnect
    \/ \E th \in BOOLEAN : (th => sent < EarlySends) /\ Send(MaxSends, th)
    \/ \E k \in 0..EarlySends : (k # 0 => sent <= EarlySends) /\ onOpen(k)
    \/ SocketClosing
    \/ onClose(CleanClose)
SpecQueue == Init /\ [][NextQueue]_vars

\* the coordinator
SpecSync == Init /\ [][SyncNext]_vars

\* the relay over several heartbeat sweeps
NextHeartbeat ==
    \/ RelayEvents(Conns) /\ UNCHANGED NotRelay
    \/ (\E c \in Conns : \E m \in HeartbeatMessages(c) : OnMessage(c, m)) /\ UNCHANGED NotRelay
    \/ Heartbeat /\ UNCHANGED NotRelay
    \/ Elapse /\ UNCHANGED NotRelay
SpecHeartbeat == Init /\ [][NextHeartbeat]_vars

\* the relay with a client that vanishes without a close; the heartbeat timer
\* and the 'close' event of a terminated socket fire fairly
NextVanish ==
    \/ (\E c \in Watchers : OnConnection(c)) /\ UNCHANGED NotRelay
    \/ (\E c \in Watchers \ {Vanishing} : PeerClose(c)) /\ UNCHANGED NotRelay
    \/ (\E c \in Watchers : OnWsClose(c)) /\ UNCHANGED NotRelay
    \/ (\E c \in Watchers : \E m \in VanishMessages(c) :
            HelloInTime(c) /\ OnMessage(c, m)) /\ UNCHANGED NotRelay
    \/ Heartbeat /\ UNCHANGED NotRelay
    \/ Elapse /\ UNCHANGED NotRelay
SpecVanish ==
    /\ Init /\ [][NextVanish]_vars
    /\ WF_vars(Heartbeat /\ UNCHANGED NotRelay)
    /\ WF_vars(OnWsClose(Vanishing) /\ UNCHANGED NotRelay)

\* the coordinator's remote avatars: inbound messages and frames only
NextAvatars ==
    \/ TransportOpen
    \/ TransportDown
    \/ \E m \in SyncMessages : \E dateNow \in {503000} : HandleMessage(m, dateNow)
    \/ \E id \in RemoteIds : \E dateNow \in {503000, 503016} :
          HandleMessage([type |-> "snapshot", clientId |-> id, plantType |-> "",
                         target |-> Coord(100), t |-> 0], dateNow)
    \/ \E d \in FrameDeltas : \E step \in FrameSteps : Execute(d, step)
SpecAvatars == Init /\ [][NextAvatars]_vars

\* the coordinator's outbound side: frames, local plants, pose sources and
\* the transport going up and down
NextPublish ==
    \/ TransportOpen
    \/ TransportDown
    \/ PosesChange
    \/ \E pt \in PlantTypes : LocalPlant(pt)
    \/ \E d \in FrameDeltas : \E step \in FrameSteps : Execute(d, step)
    \/ OnStop
SpecPublish == Init /\ [][NextPublish]_vars

\* ---- the relay driven by this repository's client ----
\* The message types the coordinator hands to the transport; it answers no
\* inbound message (handleMessage sends nothing), so it never sends pong.
ClientWireTypes ==
    { HelloOut.type, SnapshotOut(0).type }
    \cup { PlantOut([plantType |-> pt]).type : pt \in PlantTypes }
ClientConns == {"c1", "c2"}
\* What the coordinator writes: hello with its clientId and its room (the
\* page's ?room= or 'default'), snapshots stamped with the frame time whose
\* holders carry p and q, and event:plant stamped with Date.now(); none
\* carries a clientId of its own.
ClientRelayMessages(c) ==
    { Hello(HelloOut.v, id, r) : id \in HelloIds(c), r \in RoomIds }
    \cup { Snapshot("", snapshotInterval, GoodPose, GoodPose, GoodPose) }
    \cup { PlantEvent("", pt, GoodPose.p, GoodPose.q, 503000) : pt \in PlantTypes }

\* the relay with connections held by this repository's client: the client
\* keeps its connections open and sends only what its code sends
NextClientRelay ==
    \/ (\E c \in ClientConns : OnConnection(c)) /\ UNCHANGED NotRelay
    \/ (\E c \in ClientConns : \E m \in ClientRelayMessages(c) : OnMessage(c, m))
          /\ UNCHANGED NotRelay
    \/ (\E c \in ClientConns : OnWsClose(c)) /\ UNCHANGED NotRelay
    \/ Heartbeat /\ UNCHANGED NotRelay
    \/ Elapse /\ UNCHANGED NotRelay
SpecClientRelay == Init /\ [][NextClientRelay]_vars

\* ---- the transport driven by the coordinator ----
\* Messages are identified by their type here; `sent` (the numbering used by
\* the queue specifications) is not used.
MaxQueued == 2       \* messages the coordinator queues while the socket is closing

\* execute() of the coordinator: past its gate (transport.isConnected) it
\* hands a snapshot or an event:plant to transport.send()
ClientFrame(type) ==
    /\ isConnected
    /\ Len(messageQueue) < MaxQueued
    /\ IF ws = "OPEN"
       THEN /\ written' = <<type>>
            /\ sendResult' = "true"
            /\ UNCHANGED <<messageQueue, queuedSeq>>
       ELSE /\ written' = <<>>
            /\ sendResult' = "false"
            /\ messageQueue' = queueMessage(messageQueue, type)
            /\ queuedSeq' = Append(queuedSeq, type)
    /\ top' = "frame"
    /\ emitted' = <<>>
    /\ UNCHANGED <<ws, isConnecting, isConnected, reconnectAttempts, reconnectTimer, timers,
                   sent, lastDelay, schedSinceOpen, maxReached, callerCalls, disconnected,
                   throwsLeft>>
    /\ UNCHANGED NotTransport

\* the socket's 'open' event: onOpen flushes the queue and emits 'open', and
\* the coordinator's 'open' listener sends hello
ClientOpen ==
    /\ ws = "CONNECTING"
    /\ ws' = "OPEN"
    /\ isConnecting' = FALSE
    /\ isConnected' = TRUE
    /\ reconnectAttempts' = 0
    /\ written' = flushQueue(messageQueue, 0).written \o <<HelloOut.type>>
    /\ messageQueue' = flushQueue(messageQueue, 0).queue
    /\ queuedSeq' = <<>>
    /\ schedSinceOpen' = 0
    /\ maxReached' = 0
    /\ emitted' = <<"open">>
    /\ top' = "open"
    /\ sendResult' = "true"
    /\ UNCHANGED <<reconnectTimer, timers, sent, lastDelay, callerCalls, disconnected, throwsLeft>>
    /\ UNCHANGED NotTransport

NextClientWire ==
    \/ Connect(FALSE)
    \/ disconnect
    \/ \E type \in ClientWireTypes \ {HelloOut.type} : ClientFrame(type)
    \/ ClientOpen
    \/ SocketClosing
    \/ \E code \in CloseCodes : onClose(code)
    \/ \E id \in 1..MaxTimers : TimerFire(id, FALSE)
SpecClientWire == Init /\ [][NextClientWire]_vars

\* ---- the relay together with the coordinator of one connected client ----
\* Viewer is the relay-side connection of the client whose coordinator state
\* (remotePlayers) is modelled; the other connection joins, changes room,
\* closes or is swept.
Viewer == "c2"
MaxInFlight == 2     \* frames on their way to the Viewer
RoomViewMessages(c) ==
    IF c = Viewer
    THEN { Hello(1, HelloOut.clientId, HelloOut.room) }
    ELSE { Hello(1, "a", r) : r \in RoomIds }
         \cup { Snapshot("", snapshotInterval, GoodPose, GoodPose, GoodPose) }
         \cup { PlantEvent("", pt, GoodPose.p, GoodPose.q, 503000) : pt \in PlantTypes }

\* ws.send / client.send on the Viewer's connection: the frames the relay
\* step wrote to it join those already on their way. A ping is a control
\* frame: the client's socket answers it itself and raises no 'message'.
SendToViewer ==
    /\ inbox' = inbox \o SelectSeq(out'[Viewer], LAMBDA f : f.type # PingFrame.type)
    /\ Len(inbox') <= MaxInFlight
    /\ UNCHANGED <<sanVars, transportVars, syncVars>>

\* the frames written to the Viewer reach its transport in order; the
\* 'message' listener handles the oldest one (handleMessage). A snapshot
\* frame moves the avatar's target to the head position it carries
\* (head.p.x stands for the pose); its t is never 0 (the relay stamps it).
DeliverToViewer ==
    /\ mpConnected
    /\ inbox # <<>>
    /\ inbox' = Tail(inbox)
    /\ LET m == Head(inbox)
       IN  /\ (m.type = "event:plant" /\ m.clientId # SelfId) => Len(entities) < MaxEntities
           /\ CASE m.type = "join" ->
                     handlePlayerJoin(m.clientId) /\ UNCHANGED <<entities, added, published>>
                [] m.type = "leave" ->
                     handlePlayerLeave(m.clientId) /\ UNCHANGED <<entities, added, published>>
                [] m.type = "snapshot" ->
                     (\E dateNow \in {503000} :
                         handleSnapshotMsg(m.clientId, Coord(m.head.p.x.n), m.t, dateNow))
                       /\ UNCHANGED <<entities, added, published>>
                [] m.type = "event:plant" ->
                     handleRemotePlantEvent(m.clientId, m.plantType) /\ UNCHANGED remotePlayers
                [] OTHER -> UNCHANGED <<entities, added, published, remotePlayers>>
           /\ seen' = IF m.type \in {"join", "snapshot"} THEN seen \cup {m.clientId}
                      ELSE IF m.type = "leave" THEN seen \ {m.clientId}
                      ELSE seen
    /\ mpSent' = <<>>
    /\ sop' = "message"
    /\ UNCHANGED <<mpConnected, frameTime, lastSnapshotTime, poseReady>>
    /\ UNCHANGED <<relayVars, sanVars, transportVars>>

\* The relay handles its events while frames to the Viewer are on their way.
\* Explored: one plant of the other client, and its snapshots and plants
\* sent while no frame to the Viewer is on its way.
\* The Viewer's socket opens once the relay has accepted it, its hello (the
\* one its 'open' listener sends) follows the open, and its 'close' event
\* comes after the frames written before the relay closed the connection.
NextRoomView ==
    \/ readyState[Viewer] = "OPEN" /\ TransportOpen
    \/ readyState[Viewer] # "OPEN" /\ inbox = <<>> /\ TransportDown
    \/ DeliverToViewer
    \/ (\E c \in ClientConns : (c = Viewer => ~mpConnected) /\ OnConnection(c))
          /\ SendToViewer
    \/ (\E c \in ClientConns : \E m \in RoomViewMessages(c) :
            /\ c = Viewer => (mpConnected /\ ~clients[c].has)
            /\ m.type = "event:plant" => entities = <<>>
            /\ m.type \in {"snapshot", "event:plant"} => inbox = <<>>
            /\ OnMessage(c, m))
          /\ SendToViewer
    \/ (\E c \in ClientConns \ {Viewer} : PeerClose(c)) /\ SendToViewer
    \/ (\E c \in ClientConns : OnWsClose(c)) /\ SendToViewer
    \/ Heartbeat /\ SendToViewer
    \/ Elapse /\ SendToViewer
SpecRoomView == Init /\ [][NextRoomView]_vars

(***************************************************************************)
(*                               PROPERTIES                                *)
(***************************************************************************)
\* frames of one type written to connection c by the last relay step
FramesOf(c, type) == SelectSeq(out[c], LAMBDA f : f.type = type)
Receivers(type) == { c \in Conns : FramesOf(c, type) # <<>> }

\* the open connections whose session is in the room of w's session, w excluded
RoomPeers(w) ==
    { c \in Conns \ {w} : /\ readyState[c] = "OPEN"
                          /\ clients[w].has
                          /\ clients[w].room \in DOMAIN rooms
                          /\ c \in rooms[clients[w].room] }

FanOutTypes == {"join", "snapshot", "event:plant"}

ValidPlant(m) == m.plantType # "" /\ VecTruthy(m.pos) /\ VecTruthy(m.quat)
ValidSnapshot(m) == Truthy(m.head) /\ Truthy(m.lh) /\ Truthy(m.rh)

\* C1: every join, snapshot and event:plant the relay fans out reaches exactly
\* the open connections whose session is in the sender's room, the sender
\* excluded, one copy each; a valid hello and a valid event:plant always fan
\* out, and no other relay step writes such a frame.
C1_FanOutWithinRoom ==
    /\ \A type \in FanOutTypes :
         /\ Receivers(type) # {} =>
              /\ op.kind = "message"
              /\ Receivers(type) = RoomPeers(op.ws)
         /\ \A c \in Receivers(type) :
              /\ c # op.ws
              /\ clients[c].has /\ clients[c].room = clients[op.ws].room
         /\ \A c \in Conns : Len(FramesOf(c, type)) <= 1
    /\ (op.kind = "message" /\ op.msg.v = 1 /\ op.msg.type = "hello" /\ op.msg.clientId # "")
          => Receivers("join") = RoomPeers(op.ws)
    /\ (op.kind = "message" /\ op.msg.v = 1 /\ op.msg.type = "event:plant"
          /\ clients[op.ws].has /\ ValidPlant(op.msg))
          => Receivers("event:plant") = RoomPeers(op.ws)

\* C1 witness: a snapshot reached a room peer while another open connection
\* with a session in a different room, or with no session, received nothing.
C1_Witness ==
    /\ op.kind = "message" /\ op.msg.type = "snapshot"
    /\ Receivers("snapshot") # {}
    /\ \E c \in Conns \ {op.ws} :
         /\ readyState[c] = "OPEN" /\ clients[c].has
         /\ clients[c].room # clients[op.ws].room
         /\ out[c] = <<>>

\* C2 (as claimed): when a valid hello of connection B for room r is handled,
\* B is written exactly one frame, hello_ack{B's clientId, r} (r = 'default'
\* when the hello has no room), every other open member of r is written
\* exactly one frame, join{B's clientId}, and nobody else is written anything.
C2_EveryHelloAcked ==
    (op.kind = "message" /\ op.msg.v = 1 /\ op.msg.type = "hello" /\ op.msg.clientId # "") =>
        LET b == op.ws
            id == op.msg.clientId
            r == IF op.msg.room = NoRoom THEN "default" ELSE op.msg.room
        IN  /\ out[b] = <<[v |-> 1, type |-> "hello_ack", clientId |-> id, room |-> r]>>
            /\ clients[b].has /\ clients[b].room = r /\ clients[b].clientId = id
            /\ \A a \in Conns \ {b} :
                 IF readyState[a] = "OPEN" /\ clients[a].has /\ clients[a].room = r
                 THEN out[a] = <<[v |-> 1, type |-> "join", clientId |-> id, timestamp |-> now]>>
                 ELSE out[a] = <<>>

\* C2 (amended): when a valid hello of connection B for room r is handled, B
\* becomes a member of r (r = 'default' when the hello has no room) and every
\* other open member of r is written exactly one frame, join{B's clientId};
\* B is written exactly one frame, hello_ack{B's clientId, r}, if its
\* connection is open, and nothing if it is already closing; nobody else is
\* written anything.
C2_HelloJoinAck ==
    (op.kind = "message" /\ op.msg.v = 1 /\ op.msg.type = "hello" /\ op.msg.clientId # "") =>
        LET b == op.ws
            id == op.msg.clientId
            r == IF op.msg.room = NoRoom THEN "default" ELSE op.msg.room
        IN  /\ out[b] = IF readyState[b] = "OPEN"
                        THEN <<[v |-> 1, type |-> "hello_ack", clientId |-> id, room |-> r]>>
                        ELSE <<>>
            /\ readyState[b] \in {"OPEN", "CLOSING"}
            /\ clients[b].has /\ clients[b].room = r /\ clients[b].clientId = id
            /\ \A a \in Conns \ {b} :
                 IF readyState[a] = "OPEN" /\ clients[a].has /\ clients[a].room = r
                 THEN out[a] = <<[v |-> 1, type |-> "join", clientId |-> id, timestamp |-> now]>>
                 ELSE out[a] = <<>>

\* C2 witness: B's hello without a room was handled while A was an open member
\* of 'default': A got the join, B the hello_ack.
C2_Witness ==
    /\ op.kind = "message" /\ op.msg.type = "hello" /\ op.msg.room = NoRoom
    /\ \E a \in Conns \ {op.ws} : FramesOf(a, "join") # <<>> /\ clients[a].room = "default"
    /\ FramesOf(op.ws, "hello_ack") # <<>>

\* C3 (as claimed): a valid snapshot of a session whose room has another open
\* member is broadcast (to exactly its room peers) if and only if no snapshot of the session was broadcast less
\* than 40 ms before it, so that valid snapshots 41 ms apart are all
\* broadcast and of those within one window only the first is; a snapshot
\* inside the window is dropped with no frame written to anyone, and every
\* snapshot frame written is the sanitized form of the message being handled.
C3_Step ==
    /\ \A c \in Conns :
         (/\ op'.kind = "message" /\ op'.ws = c
          /\ op'.msg.v = 1 /\ op'.msg.type = "snapshot" /\ ValidSnapshot(op'.msg)
          /\ clients[c].has /\ RoomPeers(c) # {})
         => IF lastBcast[c] # 0 /\ now' - lastBcast[c] < 40
            THEN /\ out' = Silent
                 /\ lastBcast' = lastBcast
            ELSE /\ { x \in Conns : FramesOf(x, "snapshot")' # <<>> }
                      = { x \in Conns \ {c} : /\ readyState[x] = "OPEN" /\ clients[x].has
                                              /\ clients[x].room = clients[c].room }
                 /\ \A x \in Conns : Len(out'[x]) <= 1
                 /\ lastBcast'[c] = now'
    /\ \A x \in Conns : \A i \in 1..Len(out'[x]) :
         out'[x][i].type = "snapshot" =>
            /\ op'.kind = "message" /\ op'.msg.type = "snapshot"
            /\ out'[x][i] = JSONStringify(SnapshotMsg(sanitizeSnapshot(op'.msg, now'),
                                              clients[op'.ws].clientId))
C3_RateLimit == [][C3_Step]_vars

\* the claim of C4 on one scalar: a number within [-lim, lim]
InRange(v, lim) == v.k = "num" /\ -lim <= v.n /\ v.n <= lim
IsMilli(v) == v.k = "num" /\ v.n % 10 = 0

\* C4 (as claimed): clampVector3 returns components within [-1000, 1000] that
\* are multiples of 0.001 and clampQuaternion components within [-1, 1], for
\* every input; input that is not numeric-shaped gives the zero vector and the
\* identity quaternion.
C4_ClampedForEveryInput ==
    /\ sanPc = "vec" =>
         /\ \A v \in {sanOut.x, sanOut.y, sanOut.z} : InRange(v, 10000000) /\ IsMilli(v)
         /\ (sanIn.k # "obj" \/ ~IsNumberType(sanIn.x)) => sanOut = ZeroVector
    /\ sanPc = "quat" =>
         /\ \A v \in {sanOut.x, sanOut.y, sanOut.z, sanOut.w} : InRange(v, 10000)
         /\ (sanIn.k # "obj" \/ ~IsNumberType(sanIn.x)) => sanOut = IdentityQuaternion

\* C5 (as claimed): no event:plant is ever sent for an entity created by
\* handleRemotePlantEvent.
C5_NoEcho ==
    \A e \in 1..Len(entities) : entities[e].origin = "remote" => published[e] = 0

\* C6 (as claimed): after disconnect() and until the caller's next connect()
\* the transport is Disconnected and holds no underlying connection.
C6_StaysDisconnected ==
    disconnected => (ws = "null" /\ ~isConnecting /\ ~isConnected)

\* C7: the queue never holds more than maxQueueSize messages and is always the
\* most recent min(n, 100) of the messages queued since the last flush or
\* clear, in send order; send() while not connected returns false and queues
\* the message; the flush on open writes the queue in order, and when a write
\* raises, the failed message and everything behind it stay queued in order.
C7_Step ==
    /\ Len(messageQueue') <= 100
    /\ messageQueue' = LastN(queuedSeq', 100)
    /\ \A i \in 1..(Len(messageQueue') - 1) : messageQueue'[i] < messageQueue'[i + 1]
    /\ (top' = "send" /\ ~(isConnected /\ ws = "OPEN")) =>
          /\ sendResult' = "false"
          /\ written' = <<>>
          /\ messageQueue' = LastN(Append(messageQueue, sent + 1), 100)
    /\ top' = "open" =>
          /\ written' \o messageQueue' = messageQueue
          /\ throwsLeft' = throwsLeft => messageQueue' = <<>>
C7_QueueOrder == [][C7_Step]_vars

\* C7 witness: an open flushed a full queue of 100 messages whose oldest
\* entries had been dropped.
C7_Witness ==
    /\ top = "open"
    /\ Len(written) = 100
    /\ written[1] > 1
    /\ written[100] = sent

\* C8 (as claimed): the k-th reconnect scheduled since the last successful
\* open (k = 0, 1, ...) uses delay min(1000 * 2^k, 30000).
C8_DelaySequence ==
    (schedSinceOpen >= 1 /\ schedSinceOpen <= 10) =>
        lastDelay = Min(1000 * 2 ^ (schedSinceOpen - 1), 30000)

\* C9: while the caller makes no further connect()/disconnect() call, at most
\* 10 reconnects are scheduled and reconnectAttempts never exceeds 10; the
\* unexpected close that follows the 10th retry emits
\* maxReconnectAttemptsReached once and schedules nothing, and from then on
\* the transport stays Disconnected with no timer pending.
C9_Step ==
    callerCalls' <= 1 =>
        /\ reconnectAttempts' <= 10
        /\ schedSinceOpen' <= 10
        /\ maxReached' <= 1
        /\ (top' = "abnormalclose" /\ schedSinceOpen = 10) =>
              /\ emitted' = <<"close", "maxReconnectAttemptsReached">>
              /\ maxReached' = 1
              /\ timers' = {} /\ reconnectTimer' = 0
              /\ ~isConnecting' /\ ~isConnected'
        /\ (top' = "abnormalclose" /\ schedSinceOpen < 10) => maxReached' = 0
        /\ (maxReached = 1 /\ ~isConnecting) =>
              /\ maxReached' = 1
              /\ timers' = {} /\ reconnectTimer' = 0
              /\ ~isConnecting' /\ ~isConnected' /\ ws' = "CLOSED"
              /\ reconnectAttempts' = 10
C9_RetriesExhausted == [][C9_Step]_vars

\* C9 witness: after ten failed retries the event was emitted once and the
\* transport sits Disconnected while the caller keeps calling send().
C9_Witness ==
    /\ callerCalls = 1 /\ maxReached = 1
    /\ reconnectAttempts = 10 /\ schedSinceOpen = 10
    /\ ~isConnecting /\ ~isConnected /\ timers = {}
    /\ top = "send"

\* C10 (as claimed): the room registry holds no room with an empty member set.
C10_NoEmptyRoom == \A r \in DOMAIN rooms : rooms[r] # {}

\* the rooms whose member set holds connection c
RoomsOf(c) == { r \in DOMAIN rooms : c \in rooms[r] }

\* C11: a connection is in room r's member set exactly when the session table
\* holds a session for it whose room is r, so it is in at most one room; and
\* once a connection's close has been handled it has no session and is in no
\* room.
C11_MembershipMatchesSessions ==
    /\ \A c \in Conns :
         /\ RoomsOf(c) = IF clients[c].has THEN {clients[c].room} ELSE {}
         /\ Cardinality(RoomsOf(c)) <= 1
    /\ op.kind = "close" => (~clients[op.ws].has /\ RoomsOf(op.ws) = {})

\* C11 witness: a connection re-issued hello for another room and was the last
\* member of the room it left, while a second connection has a session too.
C11_Witness ==
    /\ op.kind = "message" /\ op.msg.type = "hello"
    /\ clients[op.ws].has
    /\ \E r \in DOMAIN rooms : r # clients[op.ws].room /\ rooms[r] = {}
    /\ \E c \in Conns \ {op.ws} : clients[c].has

\* C12: when the close of a connection with a session is handled (after a
\* peer close or a termination by the sweep), every remaining open member of
\* its room is written exactly one frame, leave{the departed clientId}, and
\* nobody else (the departed connection included) is written anything; the
\* close of a connection without a session writes nothing and changes neither
\* the session table nor the room registry.
C12_Step ==
    op'.kind = "close" =>
        LET c == op'.ws
            remaining == IF clients[c].room \in DOMAIN rooms
                         THEN rooms[clients[c].room] \ {c} ELSE {}
        IN  IF clients[c].has
            THEN /\ \A x \in Conns :
                      out'[x] = IF x \in remaining /\ readyState[x] = "OPEN"
                                THEN <<[v |-> 1, type |-> "leave",
                                        clientId |-> clients[c].clientId, timestamp |-> now']>>
                                ELSE <<>>
                 /\ ~clients'[c].has
            ELSE /\ out' = Silent
                 /\ clients' = clients
                 /\ rooms' = rooms
C12_LeaveOnClose == [][C12_Step]_vars

\* C12 witness: a close was handled after more than the staleness timeout had
\* elapsed (sweeps have run); an open member of the room got the leave and an
\* open connection with a session elsewhere got nothing.
C12_Witness ==
    /\ op.kind = "close"
    /\ now > StartTime + StaleTimeout
    /\ \E x \in Conns : FramesOf(x, "leave") # <<>>
    /\ \E y \in Conns : readyState[y] = "OPEN" /\ clients[y].has /\ out[y] = <<>>

\* C13 (as claimed): after a snapshot or event:plant (version 1) has been
\* handled on a connection without a session, that connection has been
\* written exactly one frame, error 'Not authenticated', no other connection
\* has been written anything, and the connection is open.
C13_ErrorAndOpen ==
    (/\ op.kind = "message" /\ op.msg.v = 1
     /\ op.msg.type \in {"snapshot", "event:plant"}
     /\ ~clients[op.ws].has)
    => /\ out = [x \in Conns |->
                   IF x = op.ws
                   THEN <<[v |-> 1, type |-> "error", error |-> "Not authenticated",
                           timestamp |-> now]>>
                   ELSE <<>>]
       /\ readyState[op.ws] = "OPEN"

\* C13 (amended): a snapshot or event:plant (version 1) arriving on a
\* connection without a session writes exactly one frame, error 'Not
\* authenticated', to that connection if it is open and nothing if it is
\* already closing, writes nothing to any other connection, creates no
\* session, changes no room, and leaves every connection's readyState as it
\* was (an open connection stays open).
C13_Step ==
    (/\ op'.kind = "message" /\ op'.msg.v = 1
     /\ op'.msg.type \in {"snapshot", "event:plant"}
     /\ ~clients[op'.ws].has)
    => /\ out' = [x \in Conns |->
                    IF x = op'.ws /\ readyState[x] = "OPEN"
                    THEN <<[v |-> 1, type |-> "error", error |-> "Not authenticated",
                            timestamp |-> now']>>
                    ELSE <<>>]
       /\ clients' = clients
       /\ rooms' = rooms
       /\ readyState' = readyState
       /\ readyState[op'.ws] \in {"OPEN", "CLOSING"}
C13_NotAuthenticated == [][C13_Step]_vars

\* C13 witness: an event:plant without a session was answered while two other
\* connections were open members of a room.
C13_Witness ==
    /\ op.kind = "message" /\ op.msg.type = "event:plant"
    /\ ~clients[op.ws].has
    /\ FramesOf(op.ws, "error") # <<>>
    /\ \E r \in DOMAIN rooms :
         Cardinality({ x \in rooms[r] : readyState[x] = "OPEN" }) = 2

\* the last relay step handled an inbound message with a protocol error
ProtocolError ==
    \/ op.kind = "badjson"
    \/ /\ op.kind = "message"
       /\ \/ op.msg.v # 1
          \/ op.msg.type = "hello" /\ op.msg.clientId = ""
          \/ op.msg.type = "snapshot" /\ ~ValidSnapshot(op.msg)
          \/ op.msg.type = "event:plant" /\ ~ValidPlant(op.msg)

\* C14 (as claimed): every protocol error (malformed JSON, version other than
\* 1, hello without clientId, snapshot without head/lh/rh, event:plant without
\* plantType/pos/quat) writes exactly one error frame to the offending sender,
\* nothing to any other connection, and leaves the sender open.
C14_ErrorsReported ==
    ProtocolError =>
        /\ Len(out[op.ws]) = 1 /\ out[op.ws][1].type = "error"
        /\ \A x \in Conns \ {op.ws} : out[x] = <<>>
        /\ readyState[op.ws] = "OPEN"

\* C15 (as claimed): a pong on a connection without a session is answered
\* with an error frame and the connection stays open; a pong on a connection
\* with a session writes no frame to anyone.
C15_PongNeedsSession ==
    (op.kind = "message" /\ op.msg.v = 1 /\ op.msg.type = "pong") =>
        IF clients[op.ws].has
        THEN out = Silent /\ clients[op.ws].lastPing = now
        ELSE /\ Len(out[op.ws]) = 1 /\ out[op.ws][1].type = "error"
             /\ readyState[op.ws] = "OPEN"

\* C16: a heartbeat sweep, run 30 s after the previous one, terminates a
\* connection exactly when it has a session whose last liveness response is
\* more than 60 s old; every other open connection with a session is written
\* one ping and stays open; a connection that is already closing is written
\* nothing and stays closing; a connection without a session is neither
\* pinged nor terminated; the sweep itself changes no session and no room.
C16_Step ==
    op'.kind = "heartbeat" =>
        /\ now' = nextSweep /\ nextSweep' = now' + 30000
        /\ clients' = clients /\ rooms' = rooms
        /\ \A c \in Conns :
             /\ readyState'[c] # readyState[c] =>
                  /\ clients[c].has
                  /\ now' - clients[c].lastPing > 60000
                  /\ readyState'[c] = "CLOSING"
             /\ (clients[c].has /\ readyState[c] = "OPEN") =>
                  IF now' - clients[c].lastPing > 60000
                  THEN readyState'[c] = "CLOSING" /\ out'[c] = <<>>
                  ELSE readyState'[c] = "OPEN" /\ out'[c] = <<[v |-> 0, type |-> "ping"]>>
             /\ (clients[c].has /\ readyState[c] = "CLOSING") =>
                  (readyState'[c] = "CLOSING" /\ out'[c] = <<>>)
             /\ ~clients[c].has => (out'[c] = <<>> /\ readyState'[c] = readyState[c])
C16_SweepRule == [][C16_Step]_vars

\* C16 witness: one sweep terminated a stale session, pinged a session whose
\* last response was exactly 60 s old, and passed over an open connection
\* without a session.
C16_Witness ==
    /\ op.kind = "heartbeat"
    /\ \E c \in Conns : /\ clients[c].has /\ readyState[c] = "CLOSING"
                        /\ now - clients[c].lastPing > 60000
    /\ \E c \in Conns : /\ clients[c].has /\ now - clients[c].lastPing = 60000
                        /\ out[c] = <<[v |-> 0, type |-> "ping"]>>
    /\ \E c \in Conns : ~clients[c].has /\ readyState[c] = "OPEN" /\ out[c] = <<>>

\* the time of the latest heartbeat sweep (StartTime before the first one)
LastSweep == nextSweep - HEARTBEAT_INTERVAL

\* C17: a client with a session that stops responding and never closes is
\* eventually terminated and its close handled: its session is removed from
\* the session table and from its room, and the open members that remain are
\* written leave for its clientId; no sweep later than 60 s after its last
\* liveness response leaves its connection open.
C17_Reclaimed ==
    /\ [](\A c \in Conns :
            (clients[c].has /\ readyState[c] = "OPEN")
                => LastSweep - clients[c].lastPing <= 60000)
    /\ \A id \in ClientIds :
         (clients[Vanishing].has /\ clients[Vanishing].clientId = id)
            ~> (/\ op.kind = "close" /\ op.ws = Vanishing
                /\ ~clients[Vanishing].has
                /\ RoomsOf(Vanishing) = {}
                /\ \A x \in Conns \ {Vanishing} :
                     (readyState[x] = "OPEN" /\ clients[x].has /\ clients[x].room = "default")
                        => out[x] = <<[v |-> 1, type |-> "leave", clientId |-> id,
                                       timestamp |-> now]>>)

\* C17 witness: the vanished client's close was handled after a sweep
\* terminated it, and the member that remained got the leave.
C17_Witness ==
    /\ op.kind = "close" /\ op.ws = Vanishing
    /\ now > StartTime + StaleTimeout
    /\ \E x \in Conns : FramesOf(x, "leave") # <<>>

\* C18: every snapshot and event:plant frame the relay writes carries the
\* clientId of the sending connection's session (the one given in its latest
\* valid hello), whatever clientId the payload had, and consists of exactly
\* the relay's own fields: v, type, clientId, t and the poses {p, q} (snapshot)
\* or plantType, pos, quat (event:plant).
C18_RelayStampsClientId ==
    \A x \in Conns : \A i \in 1..Len(out[x]) :
        LET f == out[x][i]
        IN  /\ f.type \in {"snapshot", "event:plant"} =>
                 /\ op.kind = "message" /\ clients[op.ws].has
                 /\ f.clientId = clients[op.ws].clientId
                 /\ f.v = 1
            /\ f.type = "snapshot" =>
                 /\ DOMAIN f = {"v", "type", "t", "head", "lh", "rh", "clientId"}
                 /\ \A h \in {f.head, f.lh, f.rh} : DOMAIN h = {"p", "q"}
            /\ f.type = "event:plant" =>
                 /\ DOMAIN f = {"v", "type", "clientId", "plantType", "pos", "quat", "t"}
                 /\ f.plantType = op.msg.plantType

\* C18 witness: an event:plant whose payload claimed clientId 'b' was sent on
\* the connection whose session is 'a' and reached a room member.
C18_Witness ==
    /\ op.kind = "message" /\ op.msg.type = "event:plant"
    /\ op.msg.clientId = "b" /\ clients[op.ws].clientId = "a"
    /\ Receivers("event:plant") # {}

\* C19: over any sequence of inbound messages, frames and transport changes
\* (onStop(), which removes every avatar, is not part of the claim's runs),
\* the avatars held by the coordinator are exactly the remote clientIds for
\* which a join or a snapshot has been received since their last leave (or
\* since start); remotePlayers maps an id to one avatar, and never holds the
\* client's own clientId.
C19_AvatarPerRemoteId ==
    /\ DOMAIN remotePlayers = seen \ {SelfId}
    /\ SelfId \notin DOMAIN remotePlayers
    /\ DOMAIN remotePlayers \subseteq RemoteIds

\* C19 witness: a join or snapshot carrying the client's own id has been
\* received, and exactly one remote avatar exists, moved by a snapshot.
C19_Witness ==
    /\ sop = "message"
    /\ SelfId \in seen
    /\ Cardinality(DOMAIN remotePlayers) = 1
    /\ \E id \in DOMAIN remotePlayers : remotePlayers[id].target # Coord(0)

\* C20 (as claimed): every locally created world object is published as an
\* event:plant exactly once: never twice, and once the frame after its
\* creation has run it has been published, whether or not the transport was
\* connected in that frame.
C20_LocalPublishedOnce ==
    \A e \in 1..Len(entities) :
        entities[e].origin = "local" =>
            /\ published[e] <= 1
            /\ sop = "execute" => published[e] = 1

\* C27 (as claimed): only a broadcast snapshot consumes the 40 ms window: a
\* valid snapshot of a session is dropped only when a snapshot of that session
\* was broadcast less than 40 ms before it, and a snapshot discarded for a
\* missing head, lh or rh leaves the session's lastSnapshot at the time of its
\* last broadcast.
C27_InvalidKeepsWindow ==
    /\ \A c \in Conns : clients[c].has => clients[c].lastSnapshot = lastBcast[c]
    /\ (/\ op.kind = "message" /\ op.msg.v = 1 /\ op.msg.type = "snapshot"
        /\ ValidSnapshot(op.msg) /\ clients[op.ws].has)
       => (lastBcast[op.ws] # 0 /\ now - lastBcast[op.ws] < 40)

\* snapshot messages handed to the transport by the last coordinator step
SnapshotsSent == SelectSeq(mpSent, LAMBDA f : f.type = "snapshot")

\* C21: a frame publishes a snapshot exactly when the transport is connected,
\* the pose sources are available and the frame clock is at least 50 past the
\* last publish; it then publishes one snapshot stamped with the frame clock
\* and records that clock value, so two consecutive publishes are at least 50
\* apart; any other frame publishes nothing and leaves the last-publish time
\* unchanged, and no step other than a frame publishes a snapshot.
C21_Step ==
    /\ Len(SnapshotsSent') <= 1
    /\ SnapshotsSent' # <<>> =>
         /\ sop' = "execute"
         /\ mpConnected /\ poseReady
         /\ SnapshotsSent'[1].t = frameTime'
         /\ frameTime' - lastSnapshotTime >= 50
         /\ lastSnapshotTime' = frameTime'
    /\ SnapshotsSent' = <<>> => lastSnapshotTime' = lastSnapshotTime
    /\ (sop' = "execute" /\ mpConnected /\ poseReady /\ frameTime' - lastSnapshotTime >= 50)
          => SnapshotsSent' # <<>>
C21_PublishRate == [][C21_Step]_vars

\* C21 witness: a frame with the pose sources available and the transport
\* connected published nothing because the last publish was 25 before it.
C21_Witness ==
    /\ sop = "execute" /\ mpConnected /\ poseReady
    /\ lastSnapshotTime > 0
    /\ frameTime - lastSnapshotTime = 25
    /\ mpSent = <<>>

\* C22 (as claimed): every frame moves each avatar's rendered pose toward its
\* target, also while the transport is disconnected, and a snapshot by itself
\* never moves the rendered pose: once a frame has run, no avatar with a
\* target away from the origin is still rendered at the origin, and right
\* after an inbound message an avatar is rendered where it was.
C22_InterpolatedEveryFrame ==
    \A id \in DOMAIN remotePlayers :
        /\ sop = "execute" =>
             (remotePlayers[id].target # Coord(0) => remotePlayers[id].rendered # Coord(0))
        /\ remotePlayers[id].rendered # Coord(0) => remotePlayers[id].target # Coord(0)

\* C23 (as claimed): between connect() and disconnect() the transport is
\* never left in Connecting with no underlying connection being established
\* and no reconnect timer pending, a state no timer or connection event can
\* lead out of.
C23_NeverStuckConnecting ==
    (isConnecting /\ ~disconnected) => (ws = "CONNECTING" \/ timers # {})

\* C24 (as claimed): a connection held open by this repository's client is
\* never terminated by the heartbeat sweep: the last liveness response of its
\* session is never more than 60 s old at a sweep.
C24_ClientStaysAlive ==
    \A c \in ClientConns :
        /\ readyState[c] # "CLOSING"
        /\ (clients[c].has /\ readyState[c] = "OPEN") => LastSweep - clients[c].lastPing <= 60000

\* C25 (as claimed): on every connection the client opens, the first message
\* written to it is hello; no snapshot or event:plant, queued ones included,
\* is written before it.
C25_HelloFirst ==
    top = "open" => (written # <<>> /\ written[1] = "hello")

\* C26 (as claimed): a session that stops being a member of a room with other
\* open members is announced to them by leave; so once a connected client has
\* handled every frame sent to it, each avatar it holds is the clientId of a
\* session that is a member of the client's room.
C26_AvatarsAreMembers ==
    (mpConnected /\ readyState[Viewer] = "OPEN" /\ clients[Viewer].has /\ inbox = <<>>)
        => \A id \in DOMAIN remotePlayers :
              \E c \in Conns \ {Viewer} :
                 /\ clients[c].has
                 /\ clients[c].clientId = id
                 /\ clients[c].room = clients[Viewer].room

====
